---- MODULE Spec2Model ----
(***************************************************************************)
(* Model of backend/nlp/utils/cache_manager.py.                            *)
(*                                                                         *)
(* BatchProcessingManager owns a concurrent.futures.ThreadPoolExecutor.    *)
(* process_batch submits one task per item, then waits for the futures in  *)
(* submission order, each wait bounded by self.timeout; shutdown calls     *)
(* executor.shutdown(wait=True).  The pool is modelled by its observable   *)
(* behaviour: a FIFO work queue, at most max_workers tasks running,        *)
(* submit() raising RuntimeError once the shutdown flag is set, and        *)
(* shutdown(wait=True) joining the workers after the queue has drained.    *)
(*                                                                         *)
(* Time is discrete.  Tick lets one unit of time pass; it is taken only    *)
(* when no step that takes no time is pending: a free worker takes queued  *)
(* work at once, a call that has run its time sets its future at once,     *)
(* the submit loop runs at once, future.result() returns at once when the  *)
(* future is set and raises TimeoutError once self.timeout has elapsed.    *)
(* When a call ends at the very instant a wait expires, either may win.    *)
(*                                                                         *)
(* CacheManager keeps its entries in the dict self.memory_cache or in a   *)
(* redis server reached through self.redis_client; ModelCacheManager adds *)
(* the dict self.model_cache.  A call of one of their methods is one step; *)
(* time.time() is the clock now, which CacheTick advances.                 *)
(***************************************************************************)
EXTENDS Integers, Sequences, FiniteSets, TLC

\* ---- bounds of the model ------------------------------------------------
MaxWorkers == 2      \* pool sizes 1..MaxWorkers
MaxTimeout == 3      \* timeouts 1..MaxTimeout time units
MaxItems   == 2      \* length of the items list of one process_batch call
MaxTasks   == 3      \* tasks submitted to one executor during a run

MaxDur == MaxTimeout + 1         \* a terminating fn call runs 0..MaxDur time units

Threads == {"t1", "t2"}          \* threads that can share one executor instance

VARIABLES
    max_workers,   \* self.max_workers
    timeout,       \* self.timeout
    shut,          \* executor._shutdown
    queue,         \* executor._work_queue: ids of the tasks not yet started
    tasks,         \* every work item / future created by submit, by id
    th,            \* per calling thread: position and locals of its call
    process_func   \* the ways a call fn(item) of the callers' function can go

batchVars == <<max_workers, timeout, shut, queue, tasks, th, process_func>>

VARIABLES
    manager,       \* class of the manager object, "none" before construction
    attrs,         \* the attributes the manager object has (hasattr)
    cache_type,    \* self.cache_type
    ttl,           \* self.ttl
    memory_cache,  \* self.memory_cache: key -> {'value', 'expire_time'}
    redis_client,  \* self.redis_client: "client" or "None"
    model_cache,   \* self.model_cache: name -> {'model', 'expire_time'}
    redis_up,      \* the redis server answers requests
    redis_db,      \* the keys the redis server holds
    now,           \* time.time()
    calls,         \* how often each wrapped function was invoked, by arguments
    written,       \* per key: the latest set_cache not yet deleted or cleared
    cached,        \* per model name: the latest cache_model not yet cleared
    last           \* the latest call of a method and how it ended

cacheVars == <<manager, attrs, cache_type, ttl, memory_cache, redis_client,
               model_cache, redis_up, redis_db, now, calls, written, cached, last>>

vars == <<max_workers, timeout, shut, queue, tasks, th, process_func,
          manager, attrs, cache_type, ttl, memory_cache, redis_client,
          model_cache, redis_up, redis_db, now, calls, written, cached, last>>

\* ---- values ---------------------------------------------------------------
None   == [tag |-> "None", v |-> 0]
Val(x) == [tag |-> "val", v |-> x]

\* process_func of the repository's tests: lambda item: item * 2
Fn(x) == Val(2 * x)

Hang == -1                       \* duration of a call that never returns

Items == {1, 2}                  \* the values batch items are drawn from

RECURSIVE SeqsUpTo(_, _)
SeqsUpTo(S, n) ==
    IF n = 0 THEN {<<>>}
    ELSE LET shorter == SeqsUpTo(S, n - 1)
         IN  shorter \cup {Append(s, x) : s \in {q \in shorter : Len(q) = n - 1}, x \in S}

ItemLists == SeqsUpTo(Items, MaxItems)

\* what one fn(item) call does: it returns after dur time units, raises, or
\* never returns
Behaviours ==
    [dur : 0 .. MaxDur, out : {"ok"}]
        \cup {[dur |-> 0, out |-> "raise"], [dur |-> Hang, out |-> "hang"]}

\* a thread that is not inside a call of the executor
IdleThread ==
    [pc |-> "idle", items |-> <<>>, futures |-> <<>>, results |-> <<>>,
     waited |-> 0, ret |-> <<>>,
     rejected |-> FALSE,     \* submit raised and the outer handler returned []
     wasRunning |-> FALSE,   \* the executor was Running when the call began
     alone |-> FALSE]        \* no task of another call was queued or running
                             \* when the call began, and none was submitted since

Callers == DOMAIN th

\* ---- the pool -------------------------------------------------------------
TaskIds == 1 .. Len(tasks)

RunningTasks == {k \in TaskIds : tasks[k].st = "running"}

Unfinished == {k \in TaskIds : tasks[k].st # "finished"}

\* a worker that has once run a task never takes another one
FreeWorkerOnce == Cardinality({k \in TaskIds : tasks[k].st # "pending"}) < max_workers

\* the worker of a task whose wait has timed out counts as free
FreeWorkerAfterTimeout ==
    Cardinality({k \in RunningTasks : ~tasks[k].timedOut}) < max_workers

\* a pool thread is free to take the next work item
FreeWorker == Cardinality(RunningTasks) < max_workers

\* submit() accepts work whatever the state of the executor
SubmitAlwaysAllowed == TRUE

\* ThreadPoolExecutor.submit: refused once shutdown() has set the flag
SubmitAllowed == ~shut

\* the futures are taken newest first
AwaitedFutureNewestFirst(t) == th[t].futures[Len(th[t].futures) - Len(th[t].results)]

\* the futures are looked up in a list shared by all callers of the executor
AwaitedFutureShared(t) == Len(th[t].results) + 1

\* the future process_batch waits on next: its own futures, in submission order
AwaitedFuture(t) == th[t].futures[Len(th[t].results) + 1]

\* future.result() without a timeout
WaitNeverExpires(t) == FALSE

\* future.result(timeout=self.timeout) gives up
WaitExpired(t) == th[t].waited >= timeout

\* shutdown(wait=False)
JoinNoWait == TRUE

\* executor.shutdown(wait=True) returns: queue drained, workers joined
JoinDone == Unfinished = {}

\* ---- process_batch --------------------------------------------------------
InCall(t) == th[t].pc \in {"submit", "collect"}

NewTask(t, i, x) ==
    [caller |-> t, idx |-> i, item |-> x, st |-> "pending",
     dur |-> 0, left |-> 0, out |-> "none", timedOut |-> FALSE]

\* outer handler: except Exception -> log, return []
SubmitRejected(r) ==
    [r EXCEPT !.pc = "returned", !.ret = <<>>, !.rejected = TRUE]

\* results.append(x); after the last future: return results
Appended(r, x) ==
    LET res == Append(r.results, x)
    IN  IF Len(res) = Len(r.futures)
        THEN [r EXCEPT !.results = res, !.waited = 0, !.pc = "returned", !.ret = res]
        ELSE [r EXCEPT !.results = res, !.waited = 0]

\* no handler around future.result(): the item's exception ends the loop and
\* reaches the outer handler
ItemFailedAborts(r) == [r EXCEPT !.pc = "returned", !.ret = <<>>]

\* inner handler: except Exception -> log, results.append(None)
ItemFailed(r) == Appended(r, None)

\* a thread calls process_batch(its, process_func); futures = []
BeginBatch(t, its) ==
    /\ th[t].pc = "idle"
    /\ Len(tasks) + Len(its) <= MaxTasks
    /\ th' = [th EXCEPT ![t] =
                [IdleThread EXCEPT
                    !.pc = IF its = <<>> THEN "returned" ELSE "submit",
                    !.items = its,
                    !.wasRunning = ~shut,
                    !.alone = (Unfinished = {})]]
    /\ UNCHANGED <<max_workers, timeout, shut, queue, tasks, process_func>>
    /\ UNCHANGED cacheVars

\* one turn of "for item in items: future = self.executor.submit(...)"
Submit(t) ==
    /\ th[t].pc = "submit"
    /\ LET i == Len(th[t].futures) + 1
           k == Len(tasks) + 1
       IN  IF SubmitAllowed
           THEN /\ tasks' = Append(tasks, NewTask(t, i, th[t].items[i]))
                /\ queue' = Append(queue, k)
                /\ th' = [u \in Callers |->
                            IF u = t
                            THEN [th[t] EXCEPT
                                    !.futures = Append(@, k),
                                    !.pc = IF i = Len(th[t].items)
                                           THEN "collect" ELSE "submit"]
                            ELSE IF InCall(u)
                                 THEN [th[u] EXCEPT !.alone = FALSE]
                                 ELSE th[u]]
           ELSE /\ th' = [th EXCEPT ![t] = SubmitRejected(@)]
                /\ UNCHANGED <<tasks, queue>>
    /\ UNCHANGED <<max_workers, timeout, shut, process_func>>
    /\ UNCHANGED cacheVars

\* future.result(timeout=self.timeout) returns the result or re-raises the
\* exception of the call
Collect(t) ==
    /\ th[t].pc = "collect"
    /\ tasks[AwaitedFuture(t)].st = "finished"
    /\ th' = [th EXCEPT ![t] =
                IF tasks[AwaitedFuture(t)].out = "ok"
                THEN Appended(@, Fn(tasks[AwaitedFuture(t)].item))
                ELSE ItemFailed(@)]
    /\ UNCHANGED <<max_workers, timeout, shut, queue, tasks, process_func>>
    /\ UNCHANGED cacheVars

\* future.result(timeout=self.timeout) raises TimeoutError
GiveUp(t) ==
    /\ th[t].pc = "collect"
    /\ tasks[AwaitedFuture(t)].st # "finished"
    /\ WaitExpired(t)
    /\ th' = [th EXCEPT ![t] = ItemFailed(@)]
    /\ tasks' = [tasks EXCEPT ![AwaitedFuture(t)].timedOut = TRUE]
    /\ UNCHANGED <<max_workers, timeout, shut, queue, process_func>>
    /\ UNCHANGED cacheVars

\* a work item whose future no caller holds any more: only its place in the
\* pool is left of it
Dropped(w) ==
    [caller |-> "none", idx |-> 0, item |-> 0, st |-> w.st,
     dur |-> 0, left |-> w.left, out |-> "none", timedOut |-> FALSE]

\* the caller goes on to its next call; the locals of the call that returned
\* (items, futures, results) are gone
Reset(t) ==
    /\ th[t].pc \in {"returned", "joined"}
    /\ th' = [th EXCEPT ![t] = IdleThread]
    /\ tasks' = [k \in TaskIds |->
                    IF tasks[k].caller = t THEN Dropped(tasks[k]) ELSE tasks[k]]
    /\ UNCHANGED <<max_workers, timeout, shut, queue, process_func>>
    /\ UNCHANGED cacheVars

\* ---- shutdown -------------------------------------------------------------
\* self.executor.shutdown(wait=True): set the flag, then join the workers
Shutdown(t) ==
    /\ th[t].pc = "idle"
    /\ shut' = TRUE
    /\ th' = [th EXCEPT ![t] = [IdleThread EXCEPT !.pc = "join", !.wasRunning = ~shut,
                                                 !.alone = (Unfinished = {})]]
    /\ UNCHANGED <<max_workers, timeout, queue, tasks, process_func>>
    /\ UNCHANGED cacheVars

Join(t) ==
    /\ th[t].pc = "join"
    /\ JoinDone
    /\ th' = [th EXCEPT ![t].pc = "joined"]
    /\ UNCHANGED <<max_workers, timeout, shut, queue, tasks, process_func>>
    /\ UNCHANGED cacheVars

\* ---- pool threads ---------------------------------------------------------
\* a free worker takes the oldest queued work item and calls fn(item)
Start(b) ==
    /\ b \in process_func
    /\ queue # <<>>
    /\ FreeWorker
    /\ tasks' = [tasks EXCEPT ![Head(queue)] =
                    IF @.caller = "none"
                    THEN [@ EXCEPT !.st = "running", !.left = b.dur]
                    ELSE [@ EXCEPT !.st = "running", !.dur = b.dur, !.left = b.dur,
                                   !.out = b.out]]
    /\ queue' = Tail(queue)
    /\ UNCHANGED <<max_workers, timeout, shut, th, process_func>>
    /\ UNCHANGED cacheVars

\* fn(item) returns or raises: the future is set
Finish(k) ==
    /\ k \in TaskIds
    /\ tasks[k].st = "running"
    /\ tasks[k].left = 0
    /\ tasks' = [tasks EXCEPT ![k].st = "finished"]
    /\ UNCHANGED <<max_workers, timeout, shut, queue, th, process_func>>
    /\ UNCHANGED cacheVars

\* ---- time -----------------------------------------------------------------
\* a step that takes no time is pending
Urgent ==
    \/ queue # <<>> /\ FreeWorker
    \/ \E k \in TaskIds : tasks[k].st = "running" /\ tasks[k].left = 0
    \/ \E t \in Callers : th[t].pc = "submit"
    \/ \E t \in Callers :
          /\ th[t].pc = "collect"
          /\ tasks[AwaitedFuture(t)].st = "finished" \/ WaitExpired(t)

Tick ==
    /\ ~Urgent
    /\ \/ \E k \in TaskIds : tasks[k].st = "running" /\ tasks[k].left > 0
       \/ \E t \in Callers : th[t].pc = "collect"
    /\ tasks' = [k \in TaskIds |->
                    IF tasks[k].st = "running" /\ tasks[k].left > 0
                    THEN [tasks[k] EXCEPT !.left = @ - 1]
                    ELSE tasks[k]]
    /\ th' = [t \in Callers |->
                IF th[t].pc = "collect" /\ th[t].waited < timeout
                THEN [th[t] EXCEPT !.waited = @ + 1]
                ELSE th[t]]
    /\ UNCHANGED <<max_workers, timeout, shut, queue, process_func>>
    /\ UNCHANGED cacheVars

\* ==== CacheManager ==========================================================
\* ---- bounds of the cache model ---------------------------------------------
MaxTtl == 1          \* TTLs 0..MaxTtl seconds
MaxNow == 2          \* the clock runs from 0 to MaxNow

\* ---- values ---------------------------------------------------------------
PyTrue  == [tag |-> "bool", v |-> 1]
PyFalse == [tag |-> "bool", v |-> 0]

\* the values callers cache: None, a falsy and a truthy one
Values == {None, Val(0), Val(1)}

\* ttl=None, the default of the ttl parameters
Omitted == -1

TtlArgs == {Omitted} \cup (0 .. MaxTtl)

\* keys are strings, written as sequences of tokens
Keys == {<<"x">>, <<"y">>}

\* an empty dict
EmptyDict == [k \in {} |-> 0]

\* d[k] = e
DictSet(d, k, e) == [x \in DOMAIN d \cup {k} |-> IF x = k THEN e ELSE d[x]]

\* del d[k]
DictDel(d, k) == [x \in DOMAIN d \ {k} |-> d[x]]

\* no call of a wrapped function
NoId ==
    [func |-> [name |-> <<>>, prefix |-> <<>>, ttl |-> Omitted],
     args |-> <<>>, kwargs |-> <<>>]

\* no method was called yet
NoCall ==
    [op |-> "none", key |-> <<>>, res |-> None, raised |-> "", size0 |-> 0,
     at |-> 0, ttl |-> Omitted, exp |-> Omitted, id |-> NoId, ran |-> FALSE]

\* the outcome of a method call: what it returned or raised, the time of the
\* call and the number of entries self.memory_cache held then; for a
\* set_cache its ttl argument, for a get_cache the expire_time of the entry
\* it found, for a call of a wrapped function the function and arguments and
\* whether the function was invoked
Call(o, k, r, e) ==
    [op |-> o, key |-> k, res |-> r, raised |-> e,
     size0 |-> Cardinality(DOMAIN memory_cache),
     at |-> now, ttl |-> Omitted, exp |-> Omitted, id |-> NoId, ran |-> FALSE]

\* ---- the two stores -------------------------------------------------------
\* the explicit ttl is ignored
EffTtlManagerOnly(t) == ttl

\* ttl or self.ttl
EffTtl(t) == IF t = Omitted \/ t = 0 THEN ttl ELSE t

\* time.time() < cache_item['expire_time']
Fresh(e) == now < e.expire_time

\* self.memory_cache can be used
HasMemory == "memory_cache" \in attrs

\* a request to the redis server gets through: self.redis_client is a
\* client and the server answers
RedisReachable == "redis_client" \in attrs /\ redis_client = "client" /\ redis_up

\* pickle.dumps(value): bytes that are not text
Pickled(v) == [tag |-> "bytes", v |-> v]

\* what the server holds under a key that has not expired there
RedisLive(db, k) == k \in DOMAIN db /\ now < db[k].expire_time

\* the client was made with decode_responses=True: a reply is decoded as
\* UTF-8 text, which the bytes of a pickle (they start with 0x80) are not
Decodes(b) == b.tag # "bytes"

\* pickle.loads
Unpickled(b) == b.v

\* an expired entry is left in the dict
MemoryGetKeeps(mem, k) == mem

\* self.memory_cache after get_cache(key): an expired entry is deleted
MemoryAfterGet(mem, k) ==
    IF k \in DOMAIN mem /\ ~Fresh(mem[k]) THEN DictDel(mem, k) ELSE mem

\* get_cache(key) on stores mem and db: the value returned and the dict
\* afterwards.  Redis: a reply that fails to decode ends, like every other
\* error, in "return None"; so does a missing key.
GetCache(mem, db, k) ==
    IF cache_type = "redis"
    THEN [ret |-> IF RedisReachable /\ RedisLive(db, k) /\ Decodes(db[k].value)
                  THEN Unpickled(db[k].value) ELSE None,
          raised |-> "", mem |-> mem]
    ELSE IF HasMemory
         THEN [ret |-> IF k \in DOMAIN mem /\ Fresh(mem[k])
                       THEN mem[k].value ELSE None,
               raised |-> "",
               mem |-> MemoryAfterGet(mem, k)]
         ELSE [ret |-> None, raised |-> "", mem |-> mem]

\* set_cache without the try: an error of the store reaches the caller
SetCacheUnguarded(mem, db, k, v, t) ==
    IF cache_type = "redis" /\ ~(RedisReachable /\ EffTtl(t) > 0)
    THEN [ok |-> PyFalse, raised |-> "ConnectionError", mem |-> mem, db |-> db]
    ELSE IF cache_type = "redis"
         THEN [ok |-> PyTrue, raised |-> "", mem |-> mem,
               db |-> DictSet(db, k, [value |-> Pickled(v),
                                      expire_time |-> now + EffTtl(t)])]
         ELSE [ok |-> PyTrue, raised |-> "",
               mem |-> DictSet(mem, k, [value |-> v,
                                        expire_time |-> now + EffTtl(t)]),
               db |-> db]

\* set_cache(key, value, ttl) on stores mem and db: True and the new stores,
\* or False after an error (no client, no answer, SETEX with a TTL of 0,
\* no self.memory_cache)
SetCache(mem, db, k, v, t) ==
    IF cache_type = "redis"
    THEN IF RedisReachable /\ EffTtl(t) > 0
         THEN [ok |-> PyTrue, raised |-> "", mem |-> mem,
               db |-> DictSet(db, k, [value |-> Pickled(v),
                                      expire_time |-> now + EffTtl(t)])]
         ELSE [ok |-> PyFalse, raised |-> "", mem |-> mem, db |-> db]
    ELSE IF HasMemory
         THEN [ok |-> PyTrue, raised |-> "",
               mem |-> DictSet(mem, k, [value |-> v,
                                        expire_time |-> now + EffTtl(t)]),
               db |-> db]
         ELSE [ok |-> PyFalse, raised |-> "", mem |-> mem, db |-> db]

\* ---- the data operations --------------------------------------------------
\* what is remembered of the call set_cache(k, v, t): its value, and whether
\* it overwrote another value
Written(k, v) ==
    [value |-> v, over |-> k \in DOMAIN written /\ written[k].value # v]

\* the manager object exists
Built == manager # "none"

set_cache(k, v, t) ==
    /\ Built
    /\ LET r == SetCache(memory_cache, redis_db, k, v, t)
       IN  /\ memory_cache' = r.mem
           /\ redis_db' = r.db
           /\ last' = [Call("set_cache", k, r.ok, r.raised) EXCEPT !.ttl = t]
    /\ written' = [x \in DOMAIN written \cup {k} |->
                        IF x = k THEN Written(k, v) ELSE written[x]]
    /\ UNCHANGED <<manager, attrs, cache_type, ttl, redis_client, model_cache, cached,
                   redis_up, now, calls>>
    /\ UNCHANGED batchVars

get_cache(k) ==
    /\ Built
    /\ LET r == GetCache(memory_cache, redis_db, k)
       IN  /\ memory_cache' = r.mem
           /\ last' = [Call("get_cache", k, r.ret, r.raised) EXCEPT
                            !.exp = IF cache_type # "redis" /\ k \in DOMAIN memory_cache
                                    THEN memory_cache[k].expire_time ELSE Omitted]
    /\ UNCHANGED <<manager, attrs, cache_type, ttl, redis_client, model_cache, cached,
                   redis_up, redis_db, now, calls, written>>
    /\ UNCHANGED batchVars

\* only the expired entries are removed
MemoryClearExpired(mem) == [x \in {y \in DOMAIN mem : Fresh(mem[y])} |-> mem[x]]

\* self.memory_cache.clear()
MemoryClear(mem) == EmptyDict

\* the entry is left in the dict
MemoryDeleteKeeps(mem, k) == mem

\* if key in self.memory_cache: del self.memory_cache[key]
MemoryDelete(mem, k) == DictDel(mem, k)

\* delete_cache(key): True, or False after an error
delete_cache(k) ==
    /\ Built
    /\ IF cache_type = "redis"
       THEN /\ redis_db' = IF RedisReachable THEN DictDel(redis_db, k) ELSE redis_db
            /\ last' = Call("delete_cache", k,
                            IF RedisReachable THEN PyTrue ELSE PyFalse, "")
            /\ UNCHANGED memory_cache
       ELSE /\ memory_cache' = IF HasMemory THEN MemoryDelete(memory_cache, k)
                               ELSE memory_cache
            /\ last' = Call("delete_cache", k,
                            IF HasMemory THEN PyTrue ELSE PyFalse, "")
            /\ UNCHANGED redis_db
    /\ written' = [x \in DOMAIN written \ {k} |-> written[x]]
    /\ UNCHANGED <<manager, attrs, cache_type, ttl, redis_client, model_cache, cached,
                   redis_up, now, calls>>
    /\ UNCHANGED batchVars

\* clear_cache(): True, or False after an error
clear_cache ==
    /\ Built
    /\ IF cache_type = "redis"
       THEN /\ redis_db' = IF RedisReachable THEN EmptyDict ELSE redis_db
            /\ last' = Call("clear_cache", <<>>,
                            IF RedisReachable THEN PyTrue ELSE PyFalse, "")
            /\ UNCHANGED memory_cache
       ELSE /\ memory_cache' = IF HasMemory THEN MemoryClear(memory_cache)
                               ELSE memory_cache
            /\ last' = Call("clear_cache", <<>>,
                            IF HasMemory THEN PyTrue ELSE PyFalse, "")
            /\ UNCHANGED redis_db
    /\ written' = EmptyDict
    /\ UNCHANGED <<manager, attrs, cache_type, ttl, redis_client, model_cache, cached,
                   redis_up, now, calls>>
    /\ UNCHANGED batchVars

\* stats['cache_size'] of get_cache_stats() on the in-process store
cache_size == Cardinality(DOMAIN memory_cache)

\* get_cache_stats(): on the in-process store the number of entries; the
\* redis figures are not modelled, an error there is logged
get_cache_stats ==
    /\ Built
    /\ IF cache_type = "redis"
       THEN last' = Call("get_cache_stats", <<>>, None, "")
       ELSE last' = Call("get_cache_stats", <<>>,
                         IF HasMemory THEN Val(cache_size) ELSE None,
                         IF HasMemory THEN "" ELSE "AttributeError")
    /\ UNCHANGED <<manager, attrs, cache_type, ttl, memory_cache, redis_client,
                   model_cache, cached, redis_up, redis_db, now, calls, written>>
    /\ UNCHANGED batchVars

\* nothing in the manager runs when time passes
TimePasses(mem) == mem

\* one second passes
CacheTick ==
    /\ now < MaxNow
    /\ now' = now + 1
    /\ memory_cache' = TimePasses(memory_cache)
    /\ UNCHANGED <<manager, attrs, cache_type, ttl, redis_client, model_cache, cached,
                   redis_up, redis_db, calls, written, last>>
    /\ UNCHANGED batchVars

\* ---- cache_decorator -------------------------------------------------------
\* str(args) of a tuple of ints, token by token
RECURSIVE StrItems(_)
StrItems(a) ==
    IF a = <<>> THEN <<>>
    ELSE <<ToString(Head(a)), ",">> \o StrItems(Tail(a))

StrArgs(a) == <<"(">> \o StrItems(a) \o <<")">>

\* str(kwargs): the items of the dict in the order the call gave them
RECURSIVE StrPairs(_)
StrPairs(kw) ==
    IF kw = <<>> THEN <<>>
    ELSE <<"'", Head(kw)[1], "':", ToString(Head(kw)[2]), ",">> \o StrPairs(Tail(kw))

StrKwargs(kw) == <<"{">> \o StrPairs(kw) \o <<"}">>

\* hashlib.md5(s).hexdigest(): a fixed function of the string; no two of the
\* strings hashed here collide
md5(s) == <<"md5">> \o s

\* _generate_cache_key(func_name, args, kwargs, key_prefix)
generate_cache_key(func_name, args, kwargs, key_prefix) ==
    LET args_str  == StrArgs(args) \o StrKwargs(kwargs)
        cache_key == key_prefix \o func_name \o <<":">> \o args_str
    IN  md5(cache_key)

\* what a call func(*args, **kwargs) does: it returns a value or raises
Outcomes ==
    [out : {"ok"}, v : Values] \cup {[out |-> "raise", v |-> None]}

\* the wrapper with a handler around func: the error is swallowed
WrapperSwallows(mem, db, k, o, t) ==
    LET g == GetCache(mem, db, k)
    IN  IF g.ret # None
        THEN [res |-> g.ret, raised |-> "", ran |-> FALSE, set |-> FALSE,
              mem |-> g.mem, db |-> db]
        ELSE LET st == SetCache(g.mem, db, k, o.v, EffTtl(t))
             IN  [res |-> o.v, raised |-> "", ran |-> TRUE, set |-> TRUE,
                  mem |-> st.mem, db |-> st.db]

\* the wrapper of cache_decorator(ttl=t) called with cache key k while the
\* stores are mem and db, func going the way o: get_cache; on a result that
\* is not None return it; else call func, set_cache its result with
\* ttl or self.ttl, return it.  An exception of func leaves the wrapper.
Wrapper(mem, db, k, o, t) ==
    LET g == GetCache(mem, db, k)
    IN  IF g.ret # None
        THEN [res |-> g.ret, raised |-> "", ran |-> FALSE, set |-> FALSE,
              mem |-> g.mem, db |-> db]
        ELSE IF o.out = "raise"
             THEN [res |-> None, raised |-> "FuncError", ran |-> TRUE, set |-> FALSE,
                   mem |-> g.mem, db |-> db]
             ELSE LET st == SetCache(g.mem, db, k, o.v, EffTtl(t))
                  IN  [res |-> o.v, raised |-> "", ran |-> TRUE, set |-> TRUE,
                       mem |-> st.mem, db |-> st.db]

\* the function and the arguments of a call, as written
CallId(f, a, kw) == [func |-> f, args |-> a, kwargs |-> kw]

\* the function and the arguments of a call, whatever the order the keyword
\* arguments were written in
Identity(f, a, kw) ==
    [func |-> f, args |-> a, kwargs |-> {kw[i] : i \in 1 .. Len(kw)}]

\* a call f(*a, **kw) of the function cache_decorator(ttl, key_prefix) made
\* of func; f stands for func.__name__, key_prefix and ttl
wrapper(f, a, kw, o) ==
    /\ Built
    /\ LET k  == generate_cache_key(f.name, a, kw, f.prefix)
           w  == Wrapper(memory_cache, redis_db, k, o, f.ttl)
           id == Identity(f, a, kw)
       IN  /\ memory_cache' = w.mem
           /\ redis_db' = w.db
           /\ last' = [Call("wrapper", k, w.res, w.raised) EXCEPT
                            !.id = CallId(f, a, kw), !.ran = w.ran]
           /\ calls' = [x \in DOMAIN calls \cup {id} |->
                            IF x = id
                            THEN (IF id \in DOMAIN calls THEN calls[id] ELSE {}) \cup {k}
                            ELSE calls[x]]
           /\ written' = IF w.set
                         THEN [x \in DOMAIN written \cup {k} |->
                                   IF x = k THEN Written(k, o.v) ELSE written[x]]
                         ELSE written
    /\ UNCHANGED <<manager, attrs, cache_type, ttl, redis_client, model_cache, cached,
                   redis_up, now>>
    /\ UNCHANGED batchVars

\* ---- construction and configuration ---------------------------------------
\* config.get('ttl', 3600)
DefaultTtl == 3600

\* the config dicts: 'type' and 'ttl' (DefaultTtl stands for a dict without
\* 'ttl')
Configs == [type : {"memory", "redis"}, ttl : (0 .. MaxTtl) \cup {DefaultTtl}]

\* before the constructor has returned there is no manager object
NoManager ==
    /\ manager = "none"
    /\ attrs = {}
    /\ cache_type = "memory"
    /\ ttl = 0
    /\ memory_cache = EmptyDict
    /\ redis_client = "None"
    /\ model_cache = EmptyDict
    /\ redis_db = EmptyDict
    /\ now = 0
    /\ calls = EmptyDict
    /\ written = EmptyDict
    /\ cached = EmptyDict
    /\ last = NoCall

\* _init_redis: client.ping() fails when the server does not answer, and the
\* handler raises RuntimeError
InitRedisRaises == ~redis_up

\* CacheManager(config) / ModelCacheManager(config); when _init_redis raises
\* no object comes into being
New(class, cfg) ==
    /\ manager = "none"
    /\ IF cfg.type = "redis" /\ InitRedisRaises
       THEN /\ last' = Call(class, <<>>, None, "RuntimeError")
            /\ UNCHANGED <<manager, attrs, cache_type, ttl, redis_client>>
       ELSE /\ manager' = class
            /\ cache_type' = cfg.type
            /\ ttl' = cfg.ttl
            /\ redis_client' = IF cfg.type = "redis"
                               THEN IF redis_up THEN "client" ELSE "None"
                               ELSE redis_client
            /\ attrs' = (IF cfg.type = "redis" THEN {"redis_client"}
                                               ELSE {"memory_cache"})
                        \cup (IF class = "ModelCacheManager" THEN {"model_cache"}
                                                             ELSE {})
            /\ last' = Call(class, <<>>, None, "")
    /\ UNCHANGED <<memory_cache, model_cache, cached, redis_up, redis_db, now, calls, written>>
    /\ UNCHANGED batchVars

\* set_cache_config(config): the client is made only when the object never
\* had the attribute; any other type sets it to None
set_cache_config(cfg) ==
    /\ Built
    /\ cache_type' = cfg.type
    /\ ttl' = cfg.ttl
    /\ IF cfg.type = "redis" /\ "redis_client" \notin attrs
       THEN IF InitRedisRaises
            THEN /\ last' = Call("set_cache_config", <<>>, None, "RuntimeError")
                 /\ UNCHANGED <<attrs, redis_client>>
            ELSE /\ redis_client' = IF redis_up THEN "client" ELSE "None"
                 /\ attrs' = attrs \cup {"redis_client"}
                 /\ last' = Call("set_cache_config", <<>>, None, "")
       ELSE IF cfg.type # "redis"
            THEN /\ redis_client' = "None"
                 /\ attrs' = attrs \cup {"redis_client"}
                 /\ last' = Call("set_cache_config", <<>>, None, "")
            ELSE /\ last' = Call("set_cache_config", <<>>, None, "")
                 /\ UNCHANGED <<attrs, redis_client>>
    /\ UNCHANGED <<manager, memory_cache, model_cache, cached, redis_up, redis_db, now,
                   calls, written>>
    /\ UNCHANGED batchVars

\* the redis server becomes unreachable, or reachable again
RedisFlips ==
    /\ redis_up' = ~redis_up
    /\ UNCHANGED <<manager, attrs, cache_type, ttl, memory_cache, redis_client,
                   model_cache, cached, redis_db, now, calls, written, last>>
    /\ UNCHANGED batchVars

\* no batch executor is in use
NoExecutor ==
    /\ max_workers = 1
    /\ timeout = 1
    /\ shut = FALSE
    /\ queue = <<>>
    /\ tasks = <<>>
    /\ th = EmptyDict
    /\ process_func = {}

\* ---- the in-process store, used by one thread -----------------------------
StoreConfigs == {c \in Configs : c.type = "memory"}

\* managers of type 'memory' made with a TTL of MaxTtl
MemoryConfigs == {c \in Configs : c.type = "memory" /\ c.ttl = MaxTtl}

\* the set_cache calls: every value and ttl on one key, beside an entry
\* under another key
StoreSets ==
    [key : {<<"x">>}, value : Values, ttl : TtlArgs]
        \cup {[key |-> <<"y">>, value |-> Val(1), ttl |-> Omitted]}

InitStore ==
    /\ NoExecutor
    /\ NoManager
    /\ redis_up = FALSE

StoreNext ==
    \/ \E cfg \in StoreConfigs : New("CacheManager", cfg)
    \/ \E a \in StoreSets : set_cache(a.key, a.value, a.ttl)
    \/ \E k \in Keys : get_cache(k)
    \/ \E k \in Keys : delete_cache(k)
    \/ clear_cache
    \/ get_cache_stats
    \/ CacheTick

StoreSpec == InitStore /\ [][StoreNext]_vars

\* ---- memoized calls --------------------------------------------------------
\* the functions made by cache_decorator: the name of func, key_prefix, ttl
Wrapped == [name : {<<"f">>}, prefix : {<<>>}, ttl : {Omitted}]

\* positional arguments of the calls
ArgLists == {<<5>>}

\* keyword arguments of the calls, in the order the call gives them
KwargLists == {<< <<"a", 1>>, <<"b", 2>> >>, << <<"b", 2>>, <<"a", 1>> >>}

\* func returns None or another value, or raises
MemoOutcomes == {o \in Outcomes : o.v # Val(0)}

\* managers of both types, made with a TTL
MemoConfigs == {c \in Configs : c.ttl <= MaxTtl}

InitMemo ==
    /\ NoExecutor
    /\ NoManager
    /\ redis_up = TRUE

MemoNext ==
    \/ \E cfg \in MemoConfigs : New("CacheManager", cfg)
    \/ \E f \in Wrapped, a \in ArgLists, kw \in KwargLists, o \in MemoOutcomes :
          wrapper(f, a, kw, o)
    \/ CacheTick

MemoSpec == InitMemo /\ [][MemoNext]_vars

\* ---- managers of either type, the redis server coming and going -----------
BackendConfigs == {c \in Configs : c.ttl = MaxTtl}

\* func returns a value or raises
BackendOutcomes == {o \in Outcomes : o.v \in {None, Val(1)}}

InitBackend ==
    /\ NoExecutor
    /\ NoManager
    /\ redis_up \in BOOLEAN

BackendNext ==
    \/ \E c \in {"CacheManager", "ModelCacheManager"}, cfg \in BackendConfigs :
          New(c, cfg)
    \/ \E cfg \in BackendConfigs : set_cache_config(cfg)
    \/ \E v \in {None, Val(1)} : set_cache(<<"x">>, v, Omitted)
    \/ get_cache(<<"x">>)
    \/ delete_cache(<<"x">>)
    \/ clear_cache
    \/ get_cache_stats
    \/ \E f \in Wrapped, a \in ArgLists, o \in BackendOutcomes : wrapper(f, a, <<>>, o)
    \/ RedisFlips

BackendSpec == InitBackend /\ [][BackendNext]_vars

\* ==== ModelCacheManager =====================================================
\* a model object, by identity
Obj(i) == [tag |-> "obj", v |-> i]

Models == {Obj(1), Obj(2)}

ModelNames == {<<"m">>}

\* the manager object has the methods and the dict of ModelCacheManager
HasModels == manager = "ModelCacheManager" /\ "model_cache" \in attrs

\* re-caching leaves the expire_time of the entry as it was
ModelExpiryKept(name, t) ==
    IF name \in DOMAIN model_cache THEN model_cache[name].expire_time
    ELSE now + EffTtl(t)

\* time.time() + (ttl or self.ttl)
ModelExpiry(name, t) == now + EffTtl(t)

\* what is remembered of the call cache_model(name, model, t): the object,
\* the ttl argument, the manager TTL and the time of the call, and whether
\* it replaced another object and the expire_time that one had
Cached(name, model, t) ==
    [model |-> model, ttl |-> t, mttl |-> ttl, at |-> now,
     over |-> name \in DOMAIN model_cache /\ model_cache[name].model # model,
     exp0 |-> IF name \in DOMAIN model_cache THEN model_cache[name].expire_time
              ELSE Omitted]

\* the model goes into the store of set_cache, under its name as the key
cache_model_in_store(name, model, t) ==
    /\ HasModels
    /\ LET r == SetCache(memory_cache, redis_db, name, model, t)
       IN  /\ memory_cache' = r.mem
           /\ redis_db' = r.db
    /\ model_cache' = DictSet(model_cache, name,
                              [model |-> model, expire_time |-> ModelExpiry(name, t)])
    /\ cached' = [x \in DOMAIN cached \cup {name} |->
                     IF x = name THEN Cached(name, model, t) ELSE cached[x]]
    /\ last' = [Call("cache_model", name, PyTrue, "") EXCEPT !.ttl = t]
    /\ UNCHANGED <<manager, attrs, cache_type, ttl, redis_client,
                   redis_up, now, calls, written>>
    /\ UNCHANGED batchVars

\* cache_model(model_name, model, ttl): True
cache_model(name, model, t) ==
    /\ HasModels
    /\ model_cache' = DictSet(model_cache, name,
                              [model |-> model, expire_time |-> ModelExpiry(name, t)])
    /\ cached' = [x \in DOMAIN cached \cup {name} |->
                     IF x = name THEN Cached(name, model, t) ELSE cached[x]]
    /\ last' = [Call("cache_model", name, PyTrue, "") EXCEPT !.ttl = t]
    /\ UNCHANGED <<manager, attrs, cache_type, ttl, memory_cache, redis_client,
                   redis_up, redis_db, now, calls, written>>
    /\ UNCHANGED batchVars

\* get_model(model_name): the object, or None when there is none or it has
\* expired; an expired entry is deleted
get_model(name) ==
    /\ HasModels
    /\ IF name \in DOMAIN model_cache
       THEN IF Fresh(model_cache[name])
            THEN /\ last' = [Call("get_model", name, model_cache[name].model, "")
                                EXCEPT !.exp = model_cache[name].expire_time]
                 /\ UNCHANGED model_cache
            ELSE /\ last' = [Call("get_model", name, None, "")
                                EXCEPT !.exp = model_cache[name].expire_time]
                 /\ model_cache' = DictDel(model_cache, name)
       ELSE /\ last' = Call("get_model", name, None, "")
            /\ UNCHANGED model_cache
    /\ UNCHANGED <<manager, attrs, cache_type, ttl, memory_cache, redis_client,
                   redis_up, redis_db, now, calls, written, cached>>
    /\ UNCHANGED batchVars

\* clear_model_cache(): True
clear_model_cache ==
    /\ HasModels
    /\ model_cache' = EmptyDict
    /\ cached' = EmptyDict
    /\ last' = Call("clear_model_cache", <<>>, PyTrue, "")
    /\ UNCHANGED <<manager, attrs, cache_type, ttl, memory_cache, redis_client,
                   redis_up, redis_db, now, calls, written>>
    /\ UNCHANGED batchVars

\* get_model_cache_stats(): 'cache_size' is len(self.model_cache)
get_model_cache_stats ==
    /\ HasModels
    /\ last' = Call("get_model_cache_stats", <<>>,
                    Val(Cardinality(DOMAIN model_cache)), "")
    /\ UNCHANGED <<manager, attrs, cache_type, ttl, memory_cache, redis_client,
                   model_cache, redis_up, redis_db, now, calls, written, cached>>
    /\ UNCHANGED batchVars

\* ---- one thread using a ModelCacheManager ---------------------------------
InitModel ==
    /\ NoExecutor
    /\ NoManager
    /\ redis_up = TRUE

ModelNext ==
    \/ \E cfg \in Configs : New("ModelCacheManager", cfg)
    \/ \E n \in ModelNames, m \in Models, t \in TtlArgs : cache_model(n, m, t)
    \/ \E n \in ModelNames : get_model(n)
    \/ clear_model_cache
    \/ get_model_cache_stats
    \/ CacheTick

ModelSpec == InitModel /\ [][ModelNext]_vars

\* ---- a ModelCacheManager of either type, keys and names alike -------------
NamespaceNext ==
    \/ \E cfg \in BackendConfigs : New("ModelCacheManager", cfg)
    \/ \E k \in ModelNames, v \in Values : set_cache(k, v, Omitted)
    \/ \E k \in ModelNames : get_cache(k)
    \/ \E k \in ModelNames : delete_cache(k)
    \/ clear_cache
    \/ \E n \in ModelNames, m \in Models : cache_model(n, m, Omitted)
    \/ \E n \in ModelNames : get_model(n)
    \/ clear_model_cache
    \/ CacheTick

NamespaceSpec == InitModel /\ [][NamespaceNext]_vars

\* ==== the in-process store used by several threads ==========================
\* No lock is taken anywhere in CacheManager: the threads' calls interleave
\* between a read of self.memory_cache and the statement that follows it.
StoreThreads == {"t1", "t2"}

\* no entry read yet
NoItem == [value |-> None, expire_time |-> Omitted]

\* the thread has no completed set_cache that is still the latest of its key
NoWrite == [key |-> <<>>, value |-> None, exp |-> Omitted, live |-> FALSE]

\* a thread outside every call: pc is its position; key and item are the
\* locals key and cache_item of the call it is in; got, ret and at tell that
\* its latest call was a get_cache, what that returned and when; wrote is
\* its latest completed set_cache, live until a later set_cache, delete_cache
\* or clear_cache of the key begins
IdleStoreThread ==
    [pc |-> "idle", key |-> <<>>, item |-> NoItem, got |-> FALSE, ret |-> None,
     at |-> 0, wrote |-> NoWrite]

\* a write to key k begins: earlier writes of k are no longer the latest
Supersede(f, k) ==
    [u \in DOMAIN f |->
        IF f[u].wrote.key = k THEN [f[u] EXCEPT !.wrote.live = FALSE] ELSE f[u]]

\* the call get_cache of thread t returns r
GetReturns(f, t, k, r) ==
    [f EXCEPT ![t].pc = "idle", ![t].key = k, ![t].item = NoItem,
              ![t].got = TRUE, ![t].ret = r, ![t].at = now]

\* set_cache(k, v, tt) by thread t: the assignment to self.memory_cache[key]
\* is one step
set_cache_store(t, k, v, tt) ==
    /\ Built
    /\ th[t].pc = "idle"
    /\ LET r == SetCache(memory_cache, redis_db, k, v, tt)
       IN  /\ memory_cache' = r.mem
           /\ redis_db' = r.db
           /\ last' = [Call("set_cache", k, r.ok, r.raised) EXCEPT !.ttl = tt]
           /\ th' = [Supersede(th, k) EXCEPT
                        ![t].got = FALSE,
                        ![t].wrote = [key |-> k, value |-> v,
                                      exp |-> now + EffTtl(tt),
                                      live |-> r.ok = PyTrue]]
    /\ written' = [x \in DOMAIN written \cup {k} |->
                        IF x = k THEN Written(k, v) ELSE written[x]]
    /\ UNCHANGED <<manager, attrs, cache_type, ttl, redis_client, model_cache, cached,
                   redis_up, now, calls>>
    /\ UNCHANGED <<max_workers, timeout, shut, queue, tasks, process_func>>

\* get_cache(k) by thread t, first step: cache_item = self.memory_cache.get(key);
\* without an entry the call returns None
get_cache_read(t, k) ==
    /\ Built /\ cache_type # "redis" /\ HasMemory
    /\ th[t].pc = "idle"
    /\ IF k \in DOMAIN memory_cache
       THEN /\ th' = [th EXCEPT ![t].pc = "check", ![t].key = k,
                                ![t].item = memory_cache[k], ![t].got = FALSE]
            /\ UNCHANGED last
       ELSE /\ th' = GetReturns(th, t, k, None)
            /\ last' = Call("get_cache", k, None, "")
    /\ UNCHANGED <<manager, attrs, cache_type, ttl, memory_cache, redis_client,
                   model_cache, cached, redis_up, redis_db, now, calls, written>>
    /\ UNCHANGED <<max_workers, timeout, shut, queue, tasks, process_func>>

\* second step: if time.time() < cache_item['expire_time'] the value of the
\* entry read is returned
get_cache_check(t) ==
    /\ th[t].pc = "check"
    /\ IF Fresh(th[t].item)
       THEN /\ th' = GetReturns(th, t, th[t].key, th[t].item.value)
            /\ last' = [Call("get_cache", th[t].key, th[t].item.value, "")
                            EXCEPT !.exp = th[t].item.expire_time]
       ELSE /\ th' = [th EXCEPT ![t].pc = "del"]
            /\ UNCHANGED last
    /\ UNCHANGED <<manager, attrs, cache_type, ttl, memory_cache, redis_client,
                   model_cache, cached, redis_up, redis_db, now, calls, written>>
    /\ UNCHANGED <<max_workers, timeout, shut, queue, tasks, process_func>>

\* third step: del self.memory_cache[key] removes whatever entry the key has
\* by now (a KeyError is caught); None is returned
get_cache_del(t) ==
    /\ th[t].pc = "del"
    /\ memory_cache' = IF th[t].key \in DOMAIN memory_cache
                       THEN DictDel(memory_cache, th[t].key) ELSE memory_cache
    /\ th' = GetReturns(th, t, th[t].key, None)
    /\ last' = [Call("get_cache", th[t].key, None, "")
                    EXCEPT !.exp = th[t].item.expire_time]
    /\ UNCHANGED <<manager, attrs, cache_type, ttl, redis_client,
                   model_cache, cached, redis_up, redis_db, now, calls, written>>
    /\ UNCHANGED <<max_workers, timeout, shut, queue, tasks, process_func>>

\* delete_cache(k) by thread t, first step: if key in self.memory_cache
delete_cache_test(t, k) ==
    /\ Built /\ cache_type # "redis" /\ HasMemory
    /\ th[t].pc = "idle"
    /\ IF k \in DOMAIN memory_cache
       THEN /\ th' = [Supersede(th, k) EXCEPT ![t].pc = "delete", ![t].key = k,
                                              ![t].got = FALSE]
            /\ UNCHANGED last
       ELSE /\ th' = [Supersede(th, k) EXCEPT ![t].got = FALSE]
            /\ last' = Call("delete_cache", k, PyTrue, "")
    /\ written' = [x \in DOMAIN written \ {k} |-> written[x]]
    /\ UNCHANGED <<manager, attrs, cache_type, ttl, memory_cache, redis_client,
                   model_cache, cached, redis_up, redis_db, now, calls>>
    /\ UNCHANGED <<max_workers, timeout, shut, queue, tasks, process_func>>

\* second step: del self.memory_cache[key]; True, or False after the
\* KeyError of a key another thread has removed meanwhile
delete_cache_del(t) ==
    /\ th[t].pc = "delete"
    /\ memory_cache' = MemoryDelete(memory_cache, th[t].key)
    /\ last' = Call("delete_cache", th[t].key,
                    IF th[t].key \in DOMAIN memory_cache THEN PyTrue ELSE PyFalse, "")
    /\ th' = [Supersede(th, th[t].key) EXCEPT ![t].pc = "idle", ![t].key = <<>>]
    /\ written' = [x \in DOMAIN written \ {th[t].key} |-> written[x]]
    /\ UNCHANGED <<manager, attrs, cache_type, ttl, redis_client,
                   model_cache, cached, redis_up, redis_db, now, calls>>
    /\ UNCHANGED <<max_workers, timeout, shut, queue, tasks, process_func>>

\* the key and the values of the threads' calls
RaceKeys == {<<"x">>}

RaceValues == {Val(0), Val(1)}

InitRace ==
    /\ max_workers = 1
    /\ timeout = 1
    /\ shut = FALSE
    /\ queue = <<>>
    /\ tasks = <<>>
    /\ th = [t \in StoreThreads |-> IdleStoreThread]
    /\ process_func = {}
    /\ NoManager
    /\ redis_up = FALSE

RaceNext ==
    \/ \E cfg \in MemoryConfigs : New("CacheManager", cfg)
    \/ \E t \in StoreThreads, k \in RaceKeys, v \in RaceValues :
          set_cache_store(t, k, v, Omitted)
    \/ \E t \in StoreThreads, k \in RaceKeys : get_cache_read(t, k)
    \/ \E t \in StoreThreads : get_cache_check(t)
    \/ \E t \in StoreThreads : get_cache_del(t)
    \/ \E t \in StoreThreads, k \in RaceKeys : delete_cache_test(t, k)
    \/ \E t \in StoreThreads : delete_cache_del(t)
    \/ CacheTick

RaceSpec == InitRace /\ [][RaceNext]_vars

\* ==== performance_monitor and memory_monitor ================================
\* one invocation func(*a, **kw), going the way o
Invocation(a, kw, o) == [args |-> a, kwargs |-> kw, out |-> o]

\* what the caller gets from an invocation that went the way o
Result(o) ==
    [res |-> IF o.out = "raise" THEN None ELSE o.v,
     raised |-> IF o.out = "raise" THEN "FuncError" ELSE ""]

\* the wrapper with a handler around func: an exception is logged and None
\* is returned
performance_monitor_swallows(a, kw, o) ==
    [invoked |-> <<Invocation(a, kw, o)>>,
     res |-> IF o.out = "raise" THEN None ELSE o.v, raised |-> ""]

\* the wrapper of performance_monitor(func) called with (*a, **kw): it reads
\* the clock, calls func(*args, **kwargs) outside any try, logs the time
\* taken and returns result
performance_monitor(a, kw, o) ==
    [invoked |-> <<Invocation(a, kw, o)>>,
     res |-> Result(o).res, raised |-> Result(o).raised]

\* the wrapper of memory_monitor(func): it samples the resident memory of
\* the process with psutil (a dependency of the package, taken as installed
\* and working), calls func(*args, **kwargs) outside any try, samples again,
\* logs the difference and returns result
memory_monitor(a, kw, o) ==
    [invoked |-> <<Invocation(a, kw, o)>>,
     res |-> Result(o).res, raised |-> Result(o).raised]

Monitors == {"performance_monitor", "memory_monitor"}

\* a call f(*a, **kw) of the function made by the decorator from func; the
\* invocations of func it makes are kept in calls, by the call as written
monitor_wrapper(decorator, f, a, kw, o) ==
    /\ LET w == IF decorator = "performance_monitor"
                THEN performance_monitor(a, kw, o) ELSE memory_monitor(a, kw, o)
       IN  /\ last' = [Call(decorator, <<>>, w.res, w.raised) EXCEPT
                            !.id = CallId(f, a, kw), !.ran = w.invoked # <<>>]
           /\ calls' = DictSet(calls, CallId(f, a, kw), w.invoked)
    /\ UNCHANGED <<manager, attrs, cache_type, ttl, memory_cache, redis_client,
                   model_cache, cached, redis_up, redis_db, now, written>>
    /\ UNCHANGED batchVars

\* the monitored functions, their arguments and what they do
Monitored == [name : {<<"g">>}, prefix : {<<>>}, ttl : {Omitted}]

MonitorArgs == {<<>>, <<5>>}

MonitorKwargs == {<<>>, << <<"a", 1>>, <<"b", 2>> >>}

MonitorNext ==
    \E d \in Monitors, f \in Monitored, a \in MonitorArgs, kw \in MonitorKwargs,
       o \in Outcomes : monitor_wrapper(d, f, a, kw, o)

MonitorSpec == InitStore /\ [][MonitorNext]_vars

\* ---- several functions memoized through one manager ------------------------
\* the functions made by cache_decorator(key_prefix=prefix) of the function
\* object obj, whose __name__ is name; "ab" is written <<"a", "b">>
KeyedFuncs ==
    {[obj |-> 1, name |-> <<"a", "b">>, prefix |-> <<>>, ttl |-> Omitted],
     [obj |-> 2, name |-> <<"b">>, prefix |-> <<"a">>, ttl |-> Omitted],
     [obj |-> 3, name |-> <<"b">>, prefix |-> <<>>, ttl |-> Omitted],
     [obj |-> 4, name |-> <<"b">>, prefix |-> <<>>, ttl |-> Omitted]}

\* each function returns a value of its own
Computes(f) == [out |-> "ok", v |-> Val(f.obj)]

KeyNext ==
    \/ \E cfg \in MemoryConfigs : New("CacheManager", cfg)
    \/ \E f \in KeyedFuncs, a \in ArgLists : wrapper(f, a, <<>>, Computes(f))
    \/ CacheTick

KeySpec == InitStore /\ [][KeyNext]_vars

\* ==== a memoized function called by several threads ========================
MemoThreads == {"t1", "t2"}

\* a thread outside the wrapper: func, key and item are the function called
\* and the locals cache_key and cache_item, found is cached_result and
\* result the value func returned; invoked counts the calls of func, stored
\* tells that set_cache succeeded; cold tells that the store had no entry
\* under the key when the call began, overlap that the other thread was
\* inside the wrapper during the call; ret and raised are how the call ended
IdleMemoThread ==
    [pc |-> "idle", func |-> NoId.func, key |-> <<>>, item |-> NoItem,
     found |-> None, result |-> None, invoked |-> 0, stored |-> FALSE,
     cold |-> FALSE, overlap |-> FALSE, ret |-> None, raised |-> ""]

InWrapper(r) == r.pc \notin {"idle", "returned"}

\* if cached_result:
HitTruthy(v) == v \notin {None, Val(0)}

\* if cached_result is not None:
Hit(v) == v # None

\* the call of thread t ends
WrapperReturns(f, t, v, e) ==
    [f EXCEPT ![t].pc = "returned", ![t].ret = v, ![t].raised = e]

\* thread t calls f(*a, **kw): the key is derived, get_cache begins with
\* cache_item = self.memory_cache.get(key); without an entry it returns None
wrapper_get_read(t, f, a, kw) ==
    /\ Built /\ cache_type # "redis" /\ HasMemory
    /\ th[t].pc = "idle"
    /\ LET k    == generate_cache_key(f.name, a, kw, f.prefix)
           busy == \E u \in MemoThreads \ {t} : InWrapper(th[u])
           mine == [IdleMemoThread EXCEPT
                        !.pc = IF k \in DOMAIN memory_cache THEN "check" ELSE "call",
                        !.func = f, !.key = k,
                        !.item = IF k \in DOMAIN memory_cache
                                 THEN memory_cache[k] ELSE NoItem,
                        !.cold = k \notin DOMAIN memory_cache,
                        !.overlap = busy]
       IN  th' = [u \in MemoThreads |->
                     IF u = t THEN mine
                     ELSE IF InWrapper(th[u]) THEN [th[u] EXCEPT !.overlap = TRUE]
                     ELSE th[u]]
    /\ UNCHANGED <<manager, attrs, cache_type, ttl, memory_cache, redis_client,
                   model_cache, cached, redis_up, redis_db, now, calls, written, last>>
    /\ UNCHANGED <<max_workers, timeout, shut, queue, tasks, process_func>>

\* get_cache goes on: an entry that has not expired gives cached_result, and
\* the wrapper returns it when it counts as a hit
wrapper_get_check(t) ==
    /\ th[t].pc = "check"
    /\ IF Fresh(th[t].item)
       THEN IF Hit(th[t].item.value)
            THEN /\ th' = [WrapperReturns(th, t, th[t].item.value, "") EXCEPT
                              ![t].found = th[t].item.value]
                 /\ last' = [Call("wrapper", th[t].key, th[t].item.value, "")
                                EXCEPT !.exp = th[t].item.expire_time]
            ELSE /\ th' = [th EXCEPT ![t].pc = "call", ![t].found = th[t].item.value]
                 /\ UNCHANGED last
       ELSE /\ th' = [th EXCEPT ![t].pc = "del"]
            /\ UNCHANGED last
    /\ UNCHANGED <<manager, attrs, cache_type, ttl, memory_cache, redis_client,
                   model_cache, cached, redis_up, redis_db, now, calls, written>>
    /\ UNCHANGED <<max_workers, timeout, shut, queue, tasks, process_func>>

\* get_cache ends: del self.memory_cache[key] (a KeyError is caught), None
wrapper_get_del(t) ==
    /\ th[t].pc = "del"
    /\ memory_cache' = IF th[t].key \in DOMAIN memory_cache
                       THEN DictDel(memory_cache, th[t].key) ELSE memory_cache
    /\ th' = [th EXCEPT ![t].pc = "call"]
    /\ UNCHANGED <<manager, attrs, cache_type, ttl, redis_client, model_cache, cached,
                   redis_up, redis_db, now, calls, written, last>>
    /\ UNCHANGED <<max_workers, timeout, shut, queue, tasks, process_func>>

\* result = func(*args, **kwargs), going the way o; an exception leaves the
\* wrapper
wrapper_call(t, o) ==
    /\ th[t].pc = "call"
    /\ IF o.out = "raise"
       THEN /\ th' = [WrapperReturns(th, t, None, "FuncError") EXCEPT
                         ![t].invoked = @ + 1]
            /\ last' = [Call("wrapper", th[t].key, None, "FuncError") EXCEPT
                           !.ran = TRUE]
       ELSE /\ th' = [th EXCEPT ![t].pc = "set", ![t].result = o.v,
                                ![t].invoked = @ + 1]
            /\ UNCHANGED last
    /\ UNCHANGED <<manager, attrs, cache_type, ttl, memory_cache, redis_client,
                   model_cache, cached, redis_up, redis_db, now, calls, written>>
    /\ UNCHANGED <<max_workers, timeout, shut, queue, tasks, process_func>>

\* self.set_cache(cache_key, result, ttl or self.ttl); return result
wrapper_set(t) ==
    /\ th[t].pc = "set"
    /\ LET r == SetCache(memory_cache, redis_db, th[t].key, th[t].result,
                         EffTtl(th[t].func.ttl))
       IN  /\ memory_cache' = r.mem
           /\ redis_db' = r.db
           /\ th' = [WrapperReturns(th, t, th[t].result, "") EXCEPT
                        ![t].stored = (r.ok = PyTrue)]
    /\ last' = [Call("wrapper", th[t].key, th[t].result, "") EXCEPT !.ran = TRUE]
    /\ written' = [x \in DOMAIN written \cup {th[t].key} |->
                      IF x = th[t].key THEN Written(th[t].key, th[t].result)
                      ELSE written[x]]
    /\ UNCHANGED <<manager, attrs, cache_type, ttl, redis_client, model_cache, cached,
                   redis_up, now, calls>>
    /\ UNCHANGED <<max_workers, timeout, shut, queue, tasks, process_func>>

\* every thread makes one call
InitSharedMemo ==
    /\ max_workers = 1
    /\ timeout = 1
    /\ shut = FALSE
    /\ queue = <<>>
    /\ tasks = <<>>
    /\ th = [t \in MemoThreads |-> IdleMemoThread]
    /\ process_func = {}
    /\ NoManager
    /\ redis_up = FALSE

SharedMemoNext ==
    \/ \E cfg \in MemoryConfigs : New("CacheManager", cfg)
    \/ \E t \in MemoThreads, f \in Wrapped, a \in ArgLists :
          wrapper_get_read(t, f, a, <<>>)
    \/ \E t \in MemoThreads : wrapper_get_check(t)
    \/ \E t \in MemoThreads : wrapper_get_del(t)
    \/ \E t \in MemoThreads, o \in Outcomes : wrapper_call(t, o)
    \/ \E t \in MemoThreads : wrapper_set(t)
    \/ CacheTick

SharedMemoSpec == InitSharedMemo /\ [][SharedMemoNext]_vars

\* ---- specifications -------------------------------------------------------
\* BatchProcessingManager(max_workers, timeout) used by one thread: a fresh
\* pool, Running
Init ==
    /\ max_workers \in 1 .. MaxWorkers
    /\ timeout \in 1 .. MaxTimeout
    /\ shut = FALSE
    /\ queue = <<>>
    /\ tasks = <<>>
    /\ th = [t \in {"t1"} |-> IdleThread]
    /\ process_func = Behaviours
    /\ NoManager /\ redis_up = FALSE

\* calls that return at once, raise at once or never return
CoarseBehaviours ==
    {b \in Behaviours : b.dur \in {0, Hang}}

\* one executor shared by several threads
InitShared ==
    /\ max_workers \in 1 .. MaxWorkers
    /\ timeout = 1
    /\ shut = FALSE
    /\ queue = <<>>
    /\ tasks = <<>>
    /\ th = [t \in Threads |-> IdleThread]
    /\ process_func = CoarseBehaviours
    /\ NoManager /\ redis_up = FALSE

Next ==
    \/ \E t \in Callers, its \in ItemLists : BeginBatch(t, its)
    \/ \E t \in Callers : Submit(t)
    \/ \E t \in Callers : Collect(t)
    \/ \E t \in Callers : GiveUp(t)
    \/ \E t \in Callers : Reset(t)
    \/ \E t \in Callers : Shutdown(t)
    \/ \E t \in Callers : Join(t)
    \/ \E b \in Behaviours : Start(b)
    \/ \E k \in TaskIds : Finish(k)
    \/ Tick

Spec == Init /\ [][Next]_vars

SharedSpec == InitShared /\ [][Next]_vars

\* a thread inside a call runs on; when it makes a call is up to it
CallerStep(t) ==
    /\ t \in Callers
    /\ Submit(t) \/ Collect(t) \/ GiveUp(t) \/ Join(t)

\* the callers and the pool threads are scheduled, and time passes
Fairness ==
    /\ \A t \in Threads : WF_vars(CallerStep(t))
    /\ WF_vars(\E b \in Behaviours : Start(b))
    /\ WF_vars(\E k \in TaskIds : Finish(k))
    /\ WF_vars(Tick)

\* one thread; calls that return at once, outlast the timeout, raise or hang
InitFair ==
    /\ max_workers \in 1 .. MaxWorkers
    /\ timeout = 1
    /\ shut = FALSE
    /\ queue = <<>>
    /\ tasks = <<>>
    /\ th = [t \in {"t1"} |-> IdleThread]
    /\ process_func = {b \in Behaviours : b.dur \in {0, 2, Hang}}
    /\ NoManager /\ redis_up = FALSE

FairSpec == InitFair /\ [][Next]_vars /\ Fairness

\* ---- what a returned call shows -------------------------------------------
\* process_batch has returned in thread t, and no submit was refused
Completed(t) == th[t].pc = "returned" /\ ~th[t].rejected

\* the work item of item i of the call thread t is in
TaskOf(t, i) == tasks[th[t].futures[i]]

\* fn(items[i]) was called and returned a value / did so before the timeout
ReturnsValue(w) == w.st # "pending" /\ w.out = "ok"

Quick(w) == ReturnsValue(w) /\ w.dur < timeout

\* ---- claims ---------------------------------------------------------------
\* C1: when no submit of a process_batch call was refused, the returned list
\* is as long as items and position i holds fn(items[i]) or None, for every
\* i, whatever the order the tasks completed in.
C1_PositionAligned ==
    \A t \in Callers :
        Completed(t) =>
            /\ Len(th[t].ret) = Len(th[t].items)
            /\ \A i \in 1 .. Len(th[t].items) :
                  th[t].ret[i] \in {Fn(th[t].items[i]), None}

\* a call on an idle pool of two or more workers returned both results of two
\* different items, the second of which completed first
C1_Witness ==
    \E t \in Callers :
        /\ Completed(t) /\ th[t].alone /\ max_workers >= 2
        /\ Len(th[t].items) = 2 /\ th[t].items[1] # th[t].items[2]
        /\ TaskOf(t, 1).dur > TaskOf(t, 2).dur
        /\ th[t].ret = <<Fn(th[t].items[1]), Fn(th[t].items[2])>>

\* C2: when fn raises for some items, process_batch still returns a list as
\* long as items; the index of every item whose call raised holds None, and
\* every item whose call returned a value while process_batch waited for it
\* holds that value.
C2_FailureIsolated ==
    \A t \in Callers :
        Completed(t) =>
            /\ Len(th[t].ret) = Len(th[t].items)
            /\ \A i \in 1 .. Len(th[t].items) :
                  /\ TaskOf(t, i).out = "raise" => th[t].ret[i] = None
                  /\ ReturnsValue(TaskOf(t, i)) /\ ~TaskOf(t, i).timedOut
                        => th[t].ret[i] = Fn(th[t].items[i])

\* fn raised for the first of two items and returned for the second
C2_Witness ==
    \E t \in Callers :
        /\ Completed(t)
        /\ Len(th[t].items) = 2
        /\ TaskOf(t, 1).out = "raise" /\ TaskOf(t, 2).out = "ok"
        /\ th[t].ret = <<None, Fn(th[t].items[2])>>

\* C3: in a call where some item timed out, every other item whose own fn
\* call returned a value in less than the timeout holds that value.
C3_TimeoutIsolated ==
    \A t \in Callers :
        Completed(t) /\ (\E i \in 1 .. Len(th[t].futures) : TaskOf(t, i).timedOut) =>
            \A j \in 1 .. Len(th[t].items) :
                Quick(TaskOf(t, j)) => th[t].ret[j] = Fn(th[t].items[j])

\* C4: an item whose fn call runs for longer than the timeout, or for ever,
\* holds None, wherever it stands in the list.
C4_OwnTimeout ==
    \A t \in Callers :
        Completed(t) =>
            \A i \in 1 .. Len(th[t].items) :
                LET w == TaskOf(t, i)
                IN  w.st # "pending" /\ (w.out = "hang" \/ w.dur > timeout)
                        => th[t].ret[i] = None

\* C5: a call whose tasks are the only ones queued or running, none of whose
\* fn calls raises, hangs or takes the timeout or longer, returns the fn
\* result of every item, whatever the pool size (smaller than the number of
\* items included).
C5_AllCompleted ==
    \A t \in Callers :
        /\ Completed(t) /\ th[t].alone
        /\ \A i \in 1 .. Len(th[t].items) :
              TaskOf(t, i).st # "pending" => Quick(TaskOf(t, i))
        => /\ Len(th[t].ret) = Len(th[t].items)
           /\ \A i \in 1 .. Len(th[t].items) : th[t].ret[i] = Fn(th[t].items[i])

\* more items than workers, each call taking time, all results delivered
C5_Witness ==
    \E t \in Callers :
        /\ Completed(t) /\ th[t].alone
        /\ max_workers < Len(th[t].items)
        /\ \A i \in 1 .. Len(th[t].items) :
              Quick(TaskOf(t, i)) /\ TaskOf(t, i).dur > 0
        /\ \A i \in 1 .. Len(th[t].items) : th[t].ret[i] = Fn(th[t].items[i])

\* a call of fn that never returns holds a worker
Hung(k) == tasks[k].st = "running" /\ tasks[k].left = Hang

\* where thread t is in its call; a thread that does not use the executor
\* is nowhere
PcOf(t) == IF t \in Callers THEN th[t].pc ELSE "absent"

\* C6: every process_batch call returns, whatever the number of items and
\* the pool size and even when calls of fn never finish; in a call none of
\* whose submits was refused, each item whose fn call hangs or never starts
\* holds None.
C6_AlwaysReturns ==
    /\ \A t \in Threads :
          (PcOf(t) \in {"submit", "collect"}) ~> (PcOf(t) = "returned")
    /\ [](\A t \in Callers :
            Completed(t) =>
                /\ Len(th[t].ret) = Len(th[t].items)
                /\ \A i \in 1 .. Len(th[t].items) :
                      TaskOf(t, i).out = "hang" \/ TaskOf(t, i).st = "pending"
                          => th[t].ret[i] = None)

\* a call with more items than workers returned although its first fn call
\* hangs and its last one never started
C6_Witness ==
    \E t \in Callers :
        /\ Completed(t)
        /\ max_workers < Len(th[t].items)
        /\ TaskOf(t, 1).out = "hang"
        /\ TaskOf(t, Len(th[t].items)).st = "pending"
        /\ \A i \in 1 .. Len(th[t].items) : th[t].ret[i] = None

\* C9: shutdown() returns only when every task submitted before it has
\* finished, tasks process_batch gave up waiting for included, and it does
\* return unless one of those tasks hangs.
C9_ShutdownDrains ==
    /\ [](\A t \in Callers : th[t].pc = "joined" => Unfinished = {})
    /\ \A t \in Threads :
          (PcOf(t) = "join") ~> (PcOf(t) = "joined" \/ \E k \in TaskIds : Hung(k))

\* shutdown() was called while tasks were still queued or running, and has
\* returned
C9_Witness ==
    \E t \in Callers :
        th[t].pc = "joined" /\ ~th[t].alone /\ tasks # <<>> /\ Unfinished = {}

\* the ids of the futures thread t holds
Held(t) == {th[t].futures[i] : i \in 1 .. Len(th[t].futures)}

\* C7: a process_batch call begun while the executor was Running returns a
\* list as long as its items, whatever other threads call meanwhile.
C7_LengthKept ==
    \A t \in Callers :
        th[t].pc = "returned" /\ th[t].wasRunning
            => Len(th[t].ret) = Len(th[t].items)

\* C8: once shutdown() has set the flag it stays set and no task is ever
\* created again; a process_batch call begun after it submits nothing and
\* returns the empty list, and it never waits (it does not reach the
\* collecting loop).
C8_ShutdownTerminal ==
    /\ [][shut => shut' /\ Len(tasks') = Len(tasks)]_vars
    /\ [](\A t \in Callers :
            th[t].pc \in {"submit", "collect", "returned"} /\ ~th[t].wasRunning
                => /\ th[t].pc # "collect"
                   /\ th[t].futures = <<>> /\ th[t].ret = <<>>)

\* after a first shutdown() one thread's second shutdown() has returned and
\* another thread's process_batch call with items has returned
C8_Witness ==
    \E t \in Callers, u \in Callers :
        /\ th[t].pc = "joined" /\ ~th[t].wasRunning
        /\ th[u].pc = "returned" /\ ~th[u].wasRunning /\ th[u].items # <<>>

\* C10: the list a call returns holds, at each index, the outcome of the
\* task submitted for its own item at that index: the fn result, or None
\* when the call raised or the wait for it timed out; no future is held by
\* two calls or twice by one.
C10_OwnResults ==
    /\ \A t \in Callers, u \in Callers : t # u => Held(t) \cap Held(u) = {}
    /\ \A t \in Callers :
          /\ Cardinality(Held(t)) = Len(th[t].futures)
          /\ Completed(t) =>
                /\ Len(th[t].ret) = Len(th[t].items)
                /\ \A i \in 1 .. Len(th[t].items) :
                      LET w == TaskOf(t, i)
                      IN  /\ w.caller = t /\ w.idx = i /\ w.item = th[t].items[i]
                          /\ th[t].ret[i] =
                                IF ReturnsValue(w) /\ ~w.timedOut
                                THEN Fn(th[t].items[i]) ELSE None

\* two calls whose submissions interleaved have both returned the results
\* of their own items
C10_Witness ==
    \E t \in Callers, u \in Callers :
        /\ Completed(t) /\ th[t].futures = <<1, 3>>
        /\ Completed(u) /\ th[u].futures = <<2>>
        /\ th[t].items[1] # th[u].items[1]
        /\ th[t].ret = <<Fn(th[t].items[1]), Fn(th[t].items[2])>>
        /\ th[u].ret = <<Fn(th[u].items[1])>>

\* ---- claims on the in-process store --------------------------------------
\* the TTL the caller of cache_model asked for: the ttl argument, the manager
\* TTL when it was omitted
AskedTtl(c) == IF c.ttl = Omitted THEN c.mttl ELSE c.ttl

\* the latest call was a set_cache with a ttl > 0, or without ttl on a
\* manager whose TTL is positive
SetWithTtl ==
    /\ last.op = "set_cache"
    /\ last.ttl > 0 \/ (last.ttl = Omitted /\ ttl > 0)

\* C11: on the in-process store set_cache(k, v, ttl=t) with t > 0, or with
\* ttl omitted and a positive manager TTL, returns True, and a get_cache(k)
\* that follows it at once returns v.
C11_SetThenGet ==
    /\ [](SetWithTtl => last.res = PyTrue)
    /\ [][\A k \in Keys :
            SetWithTtl /\ last.key = k /\ last.at = now /\ get_cache(k)
                => last'.res = written[k].value]_vars

\* a value set with an explicit TTL on a manager whose own TTL is 0 was
\* returned by a get_cache that found it at the time it was set
C11_Witness ==
    /\ last.op = "get_cache" /\ last.key \in DOMAIN written
    /\ ttl = 0 /\ last.exp > last.at
    /\ last.res = written[last.key].value /\ last.res = Val(0)

\* C12: the value get_cache(k) returns is the one the latest set_cache on k
\* stored, provided no delete_cache(k) or clear_cache came after it; in
\* every other case (never set, deleted, cleared) it is a miss.  A value
\* that was overwritten is not returned.
C12_Sound ==
    last.op = "get_cache" =>
        IF last.key \in DOMAIN written
        THEN last.res \in {written[last.key].value, None}
        ELSE last.res = None

\* get_cache returned the value that had overwritten a different one
C12_Witness ==
    /\ last.op = "get_cache" /\ last.key \in DOMAIN written
    /\ written[last.key].over
    /\ last.res = written[last.key].value /\ last.res = Val(1)

\* C13: an expired entry stays in self.memory_cache and in the count of
\* get_cache_stats while time passes and other keys are used; the first
\* get_cache of its key returns None and makes the count one smaller.
C13_LazyExpiry ==
    [][/\ CacheTick => memory_cache' = memory_cache
       /\ get_cache_stats => last'.res = Val(Cardinality(DOMAIN memory_cache))
       /\ \A k \in DOMAIN memory_cache :
             now > memory_cache[k].expire_time =>
                /\ get_cache(k) =>
                      /\ last'.res = None
                      /\ k \notin DOMAIN memory_cache'
                      /\ cache_size' = cache_size - 1
                /\ k \notin DOMAIN memory_cache' =>
                      get_cache(k) \/ delete_cache(k) \/ clear_cache]_vars

\* a get_cache found the entry of its key, made with a positive TTL, after
\* its expire_time, beside another entry, and the count went from 2 to 1
C13_Witness ==
    /\ last.op = "get_cache" /\ last.res = None
    /\ last.exp > 0 /\ last.at > last.exp
    /\ last.size0 = 2 /\ cache_size = 1

\* C14: once clear_cache() has returned True on the in-process store,
\* self.memory_cache is empty, get_cache_stats counts 0 entries and
\* get_cache misses for every key, whatever TTL its entry had left.
C14_ClearEmpties ==
    last.op = "clear_cache" /\ last.res = PyTrue =>
        /\ cache_size = 0
        /\ \A k \in Keys : GetCache(memory_cache, redis_db, k).ret = None

\* clear_cache was called on a store holding two entries that had not expired
C14_Witness ==
    /\ last.op = "clear_cache" /\ last.res = PyTrue
    /\ last.size0 = 2 /\ last.at = 0 /\ ttl > 0
    /\ cache_size = 0

\* ---- claims on memoized calls ---------------------------------------------
\* the TTL a function made by cache_decorator(ttl) caches with, as its
\* caller sees it: ttl, the manager TTL when ttl was omitted
DecoratorTtl(f) == IF f.ttl = Omitted THEN ttl ELSE f.ttl

\* C15: when a call of a wrapped function has invoked the function and
\* returned, a second call with equal arguments that follows it within the
\* TTL does not invoke the function and returns the same value, whatever
\* the function and the value.
C15_InvokedOnce ==
    [][\A f \in Wrapped, a \in ArgLists, kw \in KwargLists, o \in Outcomes :
          /\ last.op = "wrapper" /\ last.ran /\ last.raised = ""
          /\ last.id = CallId(f, a, kw)
          /\ now < last.at + DecoratorTtl(f)
          /\ wrapper(f, a, kw, o)
          => ~last'.ran /\ last'.res = last.res]_vars

\* an entry of the in-process store stays as it is
SameEntry(k) ==
    k \in DOMAIN memory_cache' /\ memory_cache'[k] = memory_cache[k]

\* C16 as claimed: when the wrapped function raises, the exception leaves
\* the memoized call, the stores are exactly as before the call, and the
\* next call with the same arguments invokes the function again.
C16_RaiseLeavesStore ==
    [][\A f \in Wrapped, a \in ArgLists, kw \in KwargLists, o \in Outcomes :
          /\ wrapper(f, a, kw, o) /\ o.out = "raise" /\ last'.ran
                => /\ last'.raised = "FuncError"
                   /\ memory_cache' = memory_cache /\ redis_db' = redis_db
          /\ last.raised = "FuncError" /\ last.id = CallId(f, a, kw)
             /\ wrapper(f, a, kw, o)
                => last'.ran]_vars

\* C16 as amended: when the wrapped function raises, the exception leaves
\* the memoized call; no entry is added or changed, and the only entry that
\* can be gone is the one under the cache key of the call, when its
\* expire_time had been reached; the next call with the same arguments
\* invokes the function again.
C16_RaiseStoresNothing ==
    [][\A f \in Wrapped, a \in ArgLists, kw \in KwargLists, o \in Outcomes :
          /\ wrapper(f, a, kw, o) /\ o.out = "raise" /\ last'.ran
                => /\ last'.raised = "FuncError"
                   /\ redis_db' = redis_db
                   /\ DOMAIN memory_cache' \subseteq DOMAIN memory_cache
                   /\ \A k \in DOMAIN memory_cache :
                         \/ SameEntry(k)
                         \/ /\ k = generate_cache_key(f.name, a, kw, f.prefix)
                            /\ now >= memory_cache[k].expire_time
                            /\ k \notin DOMAIN memory_cache'
          /\ last.raised = "FuncError" /\ last.id = CallId(f, a, kw)
             /\ wrapper(f, a, kw, o)
                => last'.ran]_vars

\* a call whose function raised found an expired entry under its key beside
\* another entry, and only the other one is left
C16_Witness ==
    /\ last.op = "wrapper" /\ last.raised = "FuncError"
    /\ last.size0 = 2 /\ cache_size = 1
    /\ last.key \notin DOMAIN memory_cache

\* C17: all the calls of one function with logically equal arguments derive
\* the same cache key, whatever the order of the keyword arguments.
C17_EqualArgsEqualKeys ==
    \A id \in DOMAIN calls : Cardinality(calls[id]) <= 1

\* ---- claims on the redis backend ------------------------------------------
\* the manager is set to redis and no request to the server succeeds
StoreRaises == Built /\ cache_type = "redis" /\ ~RedisReachable

\* the call returned r and raised nothing
Returned(r) == last'.res = r /\ last'.raised = ""

\* C18: while every request to the redis server raises, get_cache returns
\* None, set_cache, delete_cache and clear_cache return False, none of them
\* raises, and a call of a wrapped function invokes the function and
\* returns what it returned.
C18_FailOpen ==
    [][StoreRaises =>
         /\ get_cache(<<"x">>) => Returned(None)
         /\ delete_cache(<<"x">>) => Returned(PyFalse)
         /\ \A v \in {None, Val(1)} :
               set_cache(<<"x">>, v, Omitted) => Returned(PyFalse)
         /\ clear_cache => Returned(PyFalse)
         /\ \A f \in Wrapped, a \in ArgLists, o \in BackendOutcomes :
               wrapper(f, a, <<>>, o) /\ o.out = "ok"
                   => last'.ran /\ Returned(o.v)]_vars

\* a manager that was connected lost the server; its set_cache returned False
C18_Witness ==
    /\ Built /\ cache_type = "redis" /\ redis_client = "client" /\ ~redis_up
    /\ last.op = "set_cache" /\ last.res = PyFalse /\ last.raised = ""

\* C19: no constructor and no method of CacheManager or ModelCacheManager
\* raises because the redis server cannot be reached; the only exception
\* that leaves a call is the one of a wrapped function.
C19_NeverRaises ==
    last.raised \in {"", "FuncError"}

\* ---- claims on the model cache --------------------------------------------
\* C20: cache_model(name, obj) returns True; a get_model(name) made before
\* the expiry that the latest cache_model of the name set (the time of that
\* call plus its TTL), and before any clear_model_cache, returns the very
\* object of that call, also when the call replaced another object whose
\* own expire_time has passed.
C20_ModelKept ==
    /\ last.op = "cache_model" => last.res = PyTrue
    /\ last.op = "get_model" /\ last.key \in DOMAIN cached
       /\ last.at < cached[last.key].at + AskedTtl(cached[last.key])
           => last.res = cached[last.key].model

\* get_model returned the object that had replaced another one, at a time
\* when the expire_time of the replaced entry had passed
C20_Witness ==
    /\ last.op = "get_model" /\ last.key \in DOMAIN cached
    /\ cached[last.key].over
    /\ cached[last.key].exp0 > cached[last.key].at
    /\ last.at >= cached[last.key].exp0
    /\ last.res = cached[last.key].model

\* ---- claims on the two namespaces -----------------------------------------
\* what get_cache(k) would return now
GetCacheReturns(k) == GetCache(memory_cache, redis_db, k).ret

\* what get_model(name) would return now
GetModelReturns(name) ==
    IF name \in DOMAIN model_cache /\ Fresh(model_cache[name])
    THEN model_cache[name].model ELSE None

\* C21: cache_model, get_model and clear_model_cache never change what
\* get_cache returns for any key, and set_cache, delete_cache and clear_cache
\* never change what get_model returns for any name, also when the key and
\* the name are the same string, on a manager of either type.
C21_Namespaces ==
    [][/\ (\/ \E n \in ModelNames, m \in Models : cache_model(n, m, Omitted)
           \/ \E n \in ModelNames : get_model(n)
           \/ clear_model_cache)
          => \A k \in ModelNames : GetCacheReturns(k)' = GetCacheReturns(k)
       /\ (\/ \E k \in ModelNames, v \in Values : set_cache(k, v, Omitted)
           \/ \E k \in ModelNames : delete_cache(k)
           \/ clear_cache)
          => \A n \in ModelNames : GetModelReturns(n)' = GetModelReturns(n)]_vars

\* a model was cached under a name that is also the key of a live entry of
\* the store, holding another value
C21_Witness ==
    /\ last.op = "cache_model"
    /\ last.key \in DOMAIN memory_cache
    /\ Fresh(memory_cache[last.key])
    /\ GetCacheReturns(last.key) # None
    /\ GetModelReturns(last.key) \in Models

\* ---- claims on the store under several threads ----------------------------
\* C22: a thread that has completed set_cache(k, v, t > 0) and then calls
\* get_cache(k), no set_cache, delete_cache or clear_cache of k having begun
\* since, gets v when the get_cache returns before the expire_time of its
\* entry, whatever the other threads' get_cache calls were doing meanwhile.
C22_WriteSurvivesReaders ==
    \A t \in StoreThreads :
        /\ th[t].got
        /\ th[t].wrote.live
        /\ th[t].wrote.key = th[t].key
        /\ th[t].at < th[t].wrote.exp
        => th[t].ret = th[t].wrote.value

\* ---- claims on the monitors -----------------------------------------------
\* C23: a call of a function wrapped by performance_monitor or memory_monitor
\* invokes the function exactly once, with the positional and keyword
\* arguments of the call, returns what the invocation returned, and raises
\* what the invocation raised.
C23_Transparent ==
    last.op \in Monitors =>
        LET inv == calls[last.id]
        IN  /\ Len(inv) = 1
            /\ inv[1].args = last.id.args
            /\ inv[1].kwargs = last.id.kwargs
            /\ inv[1].out.out = "ok" => last.res = inv[1].out.v /\ last.raised = ""
            /\ inv[1].out.out = "raise" => last.raised = "FuncError"

\* memory_monitor has passed on the exception of a function called with
\* keyword arguments, after a call with other arguments that returned a
\* falsy value
C23_Witness ==
    /\ last.op = "memory_monitor"
    /\ last.raised = "FuncError"
    /\ last.id.kwargs # <<>>
    /\ \E id \in DOMAIN calls : id # last.id /\ calls[id][1].out.v = Val(0)

\* ---- claims on the moment of expiry ---------------------------------------
\* C24: a get_cache that finds an entry at a time now <= expire_time, the
\* time now = expire_time included, returns the stored value and leaves the
\* entry in the store.
C24_KeptUntilAfterExpiry ==
    last.op = "get_cache" /\ last.exp # Omitted /\ last.at <= last.exp
        => /\ last.key \in DOMAIN memory_cache
           /\ last.res = written[last.key].value

\* ---- claims on empty values -----------------------------------------------
\* what get_cache(k) returns when the stores hold nothing under k
Absent(k) == GetCache(EmptyDict, EmptyDict, k).ret

\* C25: a get_cache that finds an entry that has not expired, whatever value
\* was stored (None and falsy values included), returns a result different
\* from the one get_cache returns for an absent key.
C25_EmptyIsNotAbsent ==
    last.op = "get_cache" /\ last.exp # Omitted /\ last.at < last.exp
        => last.res # Absent(last.key)

\* ---- claims on the size of the pool ---------------------------------------
\* C26: at every moment at most max_workers calls of fn are executing on
\* the executor, those whose wait has timed out included; a running call
\* leaves its worker only by returning or raising, and a queued task starts
\* only when fewer than max_workers calls are executing.
C26_PoolBounded ==
    /\ [](Cardinality(RunningTasks) <= max_workers)
    /\ [][\A k \in TaskIds :
            /\ tasks[k].st = "running" /\ tasks'[k].st # "running"
                => tasks[k].left = 0 /\ tasks'[k].st = "finished"
            /\ tasks[k].st = "pending" /\ tasks'[k].st = "running"
                => Cardinality(RunningTasks) < max_workers]_vars

\* every worker is taken, one of them by a call whose wait has timed out,
\* and a task is queued behind them
C26_Witness ==
    /\ Cardinality(RunningTasks) = max_workers
    /\ \E k \in RunningTasks : tasks[k].timedOut
    /\ queue # <<>>

\* ---- claims on the TTL of an entry ----------------------------------------
\* C27: the entry written by set_cache(k, v, t) expires at the time of the
\* call plus t, for every t >= 0, and at the time of the call plus the TTL
\* of the manager only when t was omitted.
C27_ExplicitTtlUsed ==
    last.op = "set_cache" /\ last.res = PyTrue
        => memory_cache[last.key].expire_time =
               last.at + (IF last.ttl = Omitted THEN ttl ELSE last.ttl)

\* ---- claims on the keys of different functions ----------------------------
\* C28: calls of two different wrapped functions, and of functions wrapped
\* under different (key_prefix, function) combinations, never derive the
\* same cache key, and a memoized call returns the value its own function
\* computes.
C28_NoSharedEntry ==
    /\ \A i, j \in DOMAIN calls : i.func # j.func => calls[i] \cap calls[j] = {}
    /\ last.op = "wrapper" => last.res = Computes(last.id.func).v

\* ---- claims on reconfiguration --------------------------------------------
\* C29: whatever type the manager was constructed with and whatever configs
\* were set before, once the last config has type 'memory' set_cache returns
\* True, and a set_cache_config with type 'redis', made while the server
\* answers, leaves the manager holding a connected client.
C29_LastConfigRules ==
    /\ [](last.op = "set_cache" /\ cache_type = "memory" => last.res = PyTrue)
    /\ [][\A cfg \in BackendConfigs :
            set_cache_config(cfg) /\ cfg.type = "redis" /\ redis_up
                => redis_client' = "client"]_vars

\* ---- claims on concurrent memoized calls ----------------------------------
\* the calls of two threads began on a cold cache and overlapped
ColdTogether(t, u) ==
    /\ t # u
    /\ th[t].cold /\ th[u].cold
    /\ th[t].overlap /\ th[u].overlap

\* C30 as stated: when two threads call the wrapped function concurrently
\* with equal arguments on a cold cache, the function is invoked at most
\* once, and both calls return the same value.
C30_SingleFlight ==
    \A t, u \in MemoThreads :
        ColdTogether(t, u) =>
            /\ th[t].invoked + th[u].invoked <= 1
            /\ th[t].pc = "returned" /\ th[u].pc = "returned"
               /\ th[t].raised = "" /\ th[u].raised = ""
                   => th[t].ret = th[u].ret

\* C30, amended: each of the calls invokes the function at most once; a call
\* that finds a stored value that is not None returns it without invoking
\* the function, and it is the value another call's invocation stored; a
\* call that invokes the function returns the value of its own invocation.
C30_OncePerCall ==
    \A t \in MemoThreads :
        /\ th[t].invoked <= 1
        /\ th[t].found # None => th[t].invoked = 0
        /\ th[t].pc = "returned" /\ th[t].raised = "" =>
              IF th[t].invoked = 0
              THEN /\ th[t].found # None
                   /\ th[t].ret = th[t].found
                   /\ \E u \in MemoThreads \ {t} :
                         th[u].stored /\ th[u].result = th[t].found
              ELSE th[t].ret = th[t].result

\* two calls began together on a cold cache, both invoked the function, and
\* they returned different values
C30_Witness ==
    \E t, u \in MemoThreads :
        /\ ColdTogether(t, u)
        /\ th[t].pc = "returned" /\ th[u].pc = "returned"
        /\ th[t].invoked = 1 /\ th[u].invoked = 1
        /\ th[t].raised = "" /\ th[u].raised = ""
        /\ th[t].ret # th[u].ret

====
